---------------------------- MODULE Spec2Model ----------------------------
(***************************************************************************)
(* Model of src/inv-checker.py: RateLimiter, PriceCache and SteamMarketAPI *)
(* (fetch_csgo_inventory, get_price).                                      *)
(*                                                                         *)
(* Time.  The program reads the wall clock and only ever uses differences  *)
(* of two readings: now - last_request_time in wait(), and                 *)
(* datetime.now() - datetime.fromtimestamp(timestamp) in PriceCache.get()  *)
(* (two naive local times, whose zone offset cancels).  The model keeps    *)
(* these differences, in ticks of 1/TicksPerSecond seconds: `elapsed` and  *)
(* the age of every cache entry.  Every sleep and every request adds to    *)
(* all of them.  A difference is compared with one threshold only (the     *)
(* jittered delay, the cache lifetime), so it is counted up to the first   *)
(* value above every threshold and kept there.                             *)
(* Prices are integer cents.                                               *)
(***************************************************************************)
EXTENDS Integers, Sequences, FiniteSets, TLC

VARIABLES
    elapsed,            \* time.time() - RateLimiter.last_request_time
    consecutive_429,    \* RateLimiter.consecutive_429
    cache,              \* PriceCache.cache (in memory)
    disk,               \* content of PriceCache.cache_file
    pc,                 \* where the client is: "idle"; in get_price "gp_wait",
                        \* "gp_request"; in fetch_csgo_inventory "inv_page",
                        \* "inv_request"; "crashed" when a constructor raised
    name,               \* get_price: market_hash_name
    max_retries,        \* get_price: max_retries
    attempt,            \* get_price: attempt
    retry_count,        \* fetch_csgo_inventory: retry_count
    all_assets,         \* fetch_csgo_inventory: all_assets
    descriptions,       \* fetch_csgo_inventory: descriptions
    last_assetid,       \* fetch_csgo_inventory: last_assetid
    first,              \* fetch_csgo_inventory: first
    data,               \* fetch_csgo_inventory: data
    start_assetid,      \* fetch_csgo_inventory: params['start_assetid']
    ret,                \* how the last completed call ended
    hist                \* history of the run: observations, never read by the program

vars == <<elapsed, consecutive_429, cache, disk, pc, name, max_retries, attempt,
          retry_count, all_assets, descriptions, last_assetid, first, data,
          start_assetid, ret, hist>>

limiterVars == <<elapsed, consecutive_429>>
cacheVars == <<cache, disk>>
invVars == <<retry_count, all_assets, descriptions, last_assetid, first, data,
             start_assetid>>
gpVars == <<name, max_retries, attempt>>

---------------------------------------------------------------------------
(* Bounds of the model *)

TicksPerSecond == 5     \* clock resolution: one tick is 0.2 s
MaxRetriesArg == 2      \* largest max_retries argument passed to get_price
MaxRequests == 7        \* requests one fetch_csgo_inventory call is followed for
MaxCounter == 7         \* consecutive 429 answers the server gives
cache_duration == 2     \* PriceCache.cache_duration, a constructor argument

(* Program constants, in ticks where they are times *)

base_delay == 1 * TicksPerSecond        \* RateLimiter(base_delay=1.0)
max_delay == 60 * TicksPerSecond        \* max_delay=60.0
jitter_span == (2 * base_delay) \div 10 \* jitter=0.2: jitter * delay
inv_max_retries == 5                    \* fetch_csgo_inventory: max_retries = 5
retry_delay_cap == 60 * TicksPerSecond  \* min(2 ** retry_count, 60)

\* Python values: None, a local variable not yet assigned, d.get(k, default)
None == [py |-> "None"]
Unbound == [py |-> "Unbound"]
NoId == "None"
Get(d, k, default) == IF k \in DOMAIN d THEN d[k] ELSE default

Names == {"AK", "AWP"}

Min(a, b) == IF a < b THEN a ELSE b

RECURSIVE Pow2(_)
Pow2(n) == IF n = 0 THEN 1 ELSE 2 * Pow2(n - 1)

\* the first elapsed time above every jittered delay, and the first age above
\* the cache lifetime
ElapsedCap == base_delay + jitter_span + 1
AgeCap == cache_duration + 1

---------------------------------------------------------------------------
(* RateLimiter *)

\* the values random.uniform(-jitter * delay, jitter * delay) can take, in ticks
JitterAmounts == (0 - jitter_span) .. jitter_span

\* wait(): the jittered delay
WaitDelay(jitter_amount) == base_delay + jitter_amount

\* wait() that never sleeps
WaitSleep_NoSleep(jitter_amount) == 0

\* wait() that sleeps up to base_delay and leaves the jitter out
WaitSleep_Unjittered(jitter_amount) ==
    IF elapsed < base_delay THEN base_delay - elapsed ELSE 0

\* wait(): how long it sleeps
WaitSleep(jitter_amount) ==
    LET delay == WaitDelay(jitter_amount)
    IN  IF elapsed < delay THEN delay - elapsed ELSE 0

\* handle_429() without the cap
Handle429Delay_Uncapped(counter) == base_delay * Pow2(counter)

\* handle_429(): the delay slept, for the incremented counter
Handle429Delay(counter) == Min(base_delay * Pow2(counter), max_delay)

\* fetch_csgo_inventory: the delay after a failed attempt, min(2 ** retry_count, 60) s
RetryDelay(count) == Min(Pow2(count) * TicksPerSecond, retry_delay_cap)

\* time.time() - last_request_time, d ticks after it was e
Later(e, d) == Min(e + d, ElapsedCap)

---------------------------------------------------------------------------
(* PriceCache *)

ZeroRecord == [price |-> 0, quantity |-> 0]

\* An entry is [data, ts].  ts is what the entry's 'timestamp' holds: nothing
\* (the key is missing), 0, or a time, kept as its age now - timestamp.
NoTimestamp == [kind |-> "missing"]
ZeroTimestamp == [kind |-> "zero"]
At(age) == [kind |-> "at", age |-> age]

\* `if timestamp:`
Truthy(ts) == ts.kind = "at"

\* datetime.now() - datetime.fromtimestamp(timestamp) > self.cache_duration
Expired(ts) == ts.age > cache_duration

\* PriceCache.get(item_name).  A store is a function from the names it holds.
CacheGet(store, item_name) ==
    IF item_name \notin DOMAIN store THEN None
    ELSE LET cached_item == store[item_name]
         IN  IF Truthy(cached_item.ts) /\ Expired(cached_item.ts)
             THEN None
             ELSE cached_item.data

\* PriceCache.set() that stores the record with the time of the oldest entry
\* that is still valid
CacheSet_Backdated(store, item_name, rec) ==
    (item_name :> [data |-> rec, ts |-> At(cache_duration)]) @@ store

\* PriceCache.set() that stores nothing
CacheSet_Dropped(store, item_name, rec) == store

\* PriceCache.set(item_name, data): the in-memory store
CacheSet(store, item_name, rec) ==
    (item_name :> [data |-> rec, ts |-> At(0)]) @@ store

\* save_cache() that writes nothing
SaveCache_KeepsFile(store, file, io) == file

\* save_cache(): what the file holds afterwards.  io is "ok", "open_failed"
\* (open() raises IOError, the file is left as it was) or "write_failed" (the
\* file was truncated by open(.., 'w') and json.dump raised IOError part-way)
SaveCache(store, file, io) ==
    CASE io = "ok" -> [state |-> "stored", store |-> store]
      [] io = "open_failed" -> file
      [] OTHER -> [state |-> "malformed"]

IoOutcomes == {"ok", "write_failed"}

\* _load_cache(): the store built from the file
LoadCache(file) ==
    IF file.state = "stored" THEN file.store ELSE << >>

\* the store d ticks later: every timestamp is d ticks older
Aged(store, d) ==
    [n \in DOMAIN store |->
        IF store[n].ts.kind = "at"
        THEN [store[n] EXCEPT !.ts = At(Min(store[n].ts.age + d, AgeCap))]
        ELSE store[n]]

AgedFile(file, d) ==
    IF file.state = "stored" THEN [file EXCEPT !.store = Aged(file.store, d)]
    ELSE file

---------------------------------------------------------------------------
(* The server and the file system: what the program can be given *)

\* how long a request can take: no time, less than any delay, more than any
Latencies == {0, 2, ElapsedCap}

\* listing endpoint, the payload of a 200 answer: listinginfo as the sequence
\* of its values; a listing may lack any of its keys
Listing1 == [converted_price |-> 1050, converted_fee |-> 50, quantity |-> 3]
Listing2 == [converted_fee |-> 50, quantity |-> 2]
Listing3 == [converted_price |-> 200]
PricePayloads ==
    {<< >>, <<Listing1>>, <<Listing2, Listing1>>, <<Listing3>>, <<Listing3, Listing1>>}

\* the parsing that leaves the fee out
ParsePrice_WithoutFee(listinginfo) ==
    IF listinginfo = << >> THEN ZeroRecord
    ELSE [price |-> Get(listinginfo[1], "converted_price", 0),
          quantity |-> Get(listinginfo[1], "quantity", 0)]

\* get_price: the record parsed from listinginfo
ParsePrice(listinginfo) ==
    IF listinginfo = << >> THEN ZeroRecord
    ELSE LET info == listinginfo[1]
             fee_raw == Get(info, "converted_fee", 0)
             quantity == Get(info, "quantity", 0)
         IN  [price |-> IF "converted_price" \in DOMAIN info
                        THEN info.converted_price + fee_raw ELSE 0,
              quantity |-> quantity]

PriceRecords == {ParsePrice(p) : p \in PricePayloads}

\* what the cache file can hold when the program starts: no file, a file that
\* is not JSON, or a stored mapping (written by an earlier run or by hand)
InitialFiles ==
    {[state |-> "missing"], [state |-> "malformed"],
     [state |-> "stored",
      store |-> ("AK" :> [data |-> ParsePrice(<<Listing1>>), ts |-> ZeroTimestamp])],
     [state |-> "stored",
      store |-> ("AK" :> [data |-> ZeroRecord, ts |-> At(cache_duration)])
                @@ ("AWP" :> [data |-> ParsePrice(<<Listing1>>), ts |-> NoTimestamp])]}

\* inventory endpoint, the JSON body of a 200 answer: a page (a page may lack
\* any of its keys), the empty object or null
PageA == [assets |-> <<"a1", "a2">>, descriptions |-> <<"dA">>,
          more_items |-> 1, last_assetid |-> "a2"]
PageE == [assets |-> <<"e1">>, descriptions |-> <<"dE">>,
          more_items |-> 1, last_assetid |-> "e1"]
PageB == [assets |-> <<"b1">>, descriptions |-> <<"dB">>, more_items |-> 0]
PageC == [assets |-> <<"c1">>, more_items |-> 1]
PageD == [success |-> 1, last_assetid |-> "d1"]
Pages == {PageA, PageE, PageB, PageC, PageD}
EmptyObject == << >>
Bodies == Pages \cup {EmptyObject, None}

\* `not data`
Falsy(d) == IF DOMAIN d = {} THEN TRUE ELSE d = None

---------------------------------------------------------------------------
(* History of the run *)

NoRet == [kind |-> "none", val |-> None]
Return(v) == [kind |-> "return", val |-> v]
Raise(e) == [kind |-> "raise", val |-> [exc |-> e]]

InitHist ==
    [op |-> "none",             \* the call running or last run
     outcome |-> "none",        \* how the last call ended
     waits |-> 0,               \* wait() calls so far, counted up to 2
     gap |-> 0,                 \* right after a wait(): the time between its
                                \* request time and the previous one
     spaced |-> TRUE,           \* right after a wait(): it returned no earlier than
                                \* its drawn delay after the previous request time
     penalties |-> << >>,       \* handle_429() delays since the last success()
     only_429 |-> TRUE,         \* the running call was answered with 429s only,
                                \* but for the latest answer
     call_start_429 |-> 0,      \* consecutive_429 when the call started (while only_429)
     call_penalties |-> << >>,  \* handle_429() delays of the call (while only_429)
     requests |-> 0,            \* requests sent by the running call
     since_wait |-> 0,          \* requests sent since the latest wait()
     expected |-> << >>,        \* assets of the pages served in the running call
     closed |-> "no",           \* a 200 answer of the running call asked for no
                                \* other page: "page", or "other" when its body
                                \* was no page; "no" before
     exhausted |-> FALSE,       \* a page of the running call used up its retries
     late_requests |-> 0,       \* requests sent after `exhausted` or after a
                                \* 200 answer that asks for no other page
     set_key |-> NoId,          \* PriceCache.set called on its own: the key,
     set_data |-> None,         \* the record
     set_io |-> "none",         \* how save_cache() went,
     set_kept |-> FALSE,        \* and whether it left the file as it was
     payload |-> << >>,         \* get_price: the listinginfo of the 200 answer
                                \* the call returned on
     page_failures |-> 0,       \* fetch_csgo_inventory: attempts of the current
                                \* page that ended in the except handler
     last_answer |-> "none",    \* the latest answer of the running call: "429",
                                \* "2xx", or "failed" (no answer, or another status)
     since_2xx |-> 0,           \* 429 answers since the latest 2xx answer
     page_requests |-> 0]       \* requests answered since the page loop's wait()

\* the history after wait()
HWait(h, jitter_amount) ==
    [h EXCEPT !.waits = Min(h.waits + 1, 2),
              !.gap = Min(elapsed + WaitSleep(jitter_amount), ElapsedCap),
              !.spaced = (elapsed + WaitSleep(jitter_amount) >= WaitDelay(jitter_amount)),
              !.since_wait = 0]

\* the history after a request was sent
HRequest(h) ==
    [h EXCEPT !.gap = 0, !.spaced = TRUE,
              !.requests = h.requests + 1,
              !.page_requests = h.page_requests + 1,
              !.since_wait = Min(h.since_wait + 1, 2),
              !.late_requests = IF h.exhausted \/ h.closed # "no"
                                THEN Min(h.late_requests + 1, 2)
                                ELSE h.late_requests]

\* the history after the request was answered
HAnswer(h, kind) ==
    [h EXCEPT !.last_answer = kind,
              !.since_2xx = IF kind = "2xx" THEN 0
                            ELSE IF kind = "429" THEN h.since_2xx + 1
                            ELSE h.since_2xx]

\* the history after handle_429() slept `delay`
HPenalty(h, delay) ==
    [h EXCEPT !.penalties = Append(h.penalties, delay),
              !.call_penalties = IF h.only_429 THEN Append(h.call_penalties, delay)
                                 ELSE << >>]

\* the history after success()
HSuccess(h) == [h EXCEPT !.penalties = << >>]

\* the history after an answer that was not a 429 and did not end the call
HNot429(h) ==
    [h EXCEPT !.only_429 = FALSE, !.call_start_429 = 0, !.call_penalties = << >>]

\* the history after an attempt of a page ended in the except handler
HFailure(h) == [h EXCEPT !.page_failures = h.page_failures + 1]

\* the history when a call starts
HCall(h, op) ==
    [h EXCEPT !.op = op, !.outcome = "running",
              !.call_penalties = << >>, !.call_start_429 = consecutive_429,
              !.only_429 = TRUE, !.requests = 0, !.since_wait = 0,
              !.gap = 0, !.spaced = TRUE, !.expected = << >>,
              !.closed = "no", !.exhausted = FALSE, !.late_requests = 0,
              !.payload = << >>, !.page_failures = 0,
              !.last_answer = "none", !.page_requests = 0]

\* the history once the caller has dropped the result of the last call
HIdle(h) == [HCall(h, "none") EXCEPT !.outcome = "none", !.call_start_429 = 0]

---------------------------------------------------------------------------
Init ==
    /\ elapsed = ElapsedCap
    /\ consecutive_429 = 0
    /\ disk \in InitialFiles
    /\ cache = LoadCache(disk)
    /\ pc = "idle"
    /\ name = NoId
    /\ max_retries = 0
    /\ attempt = 0
    /\ retry_count = 0
    /\ all_assets = << >>
    /\ descriptions = << >>
    /\ last_assetid = NoId
    /\ first = TRUE
    /\ data = Unbound
    /\ start_assetid = NoId
    /\ ret = NoRet
    /\ hist = InitHist

\* d ticks pass: the stored timestamps get older
Pass(d) ==
    /\ cache' = Aged(cache, d)
    /\ disk' = AgedFile(disk, d)

\* a tick passes between two calls; the result of the last call is gone
Elapse ==
    /\ pc = "idle"
    /\ elapsed' = Later(elapsed, 1)
    /\ Pass(1)
    /\ ret' = NoRet
    /\ hist' = HIdle(hist)
    /\ UNCHANGED <<consecutive_429, pc, gpVars, invVars>>

---------------------------------------------------------------------------
(* SteamMarketAPI.get_price *)

\* get_price that does not look into the cache
GetPriceCall_NoShortCircuit ==
    /\ pc = "idle"
    /\ \E market_hash_name \in Names, mr \in 0 .. MaxRetriesArg :
          /\ name' = market_hash_name
          /\ max_retries' = mr
    /\ attempt' = 0
    /\ pc' = "gp_wait"
    /\ ret' = NoRet
    /\ hist' = HCall(hist, "get_price")
    /\ UNCHANGED <<limiterVars, cacheVars, invVars>>

\* the call, up to the cache lookup: a hit returns, a miss enters the loop
GetPriceCallIn(names) ==
    /\ pc = "idle"
    /\ \E market_hash_name \in names, mr \in 0 .. MaxRetriesArg :
          LET cache_result == CacheGet(cache, market_hash_name)
              h == HCall(hist, "get_price")
          IN  /\ name' = market_hash_name
              /\ max_retries' = mr
              /\ attempt' = 0
              /\ IF cache_result # None
                 THEN /\ pc' = "idle"
                      /\ ret' = Return(cache_result)
                      /\ hist' = [h EXCEPT !.outcome = "hit"]
                 ELSE /\ pc' = "gp_wait"
                      /\ ret' = NoRet
                      /\ hist' = h
    /\ UNCHANGED <<limiterVars, cacheVars, invVars>>

\* the same with all that the server and the file system can do
GetPriceCall == GetPriceCallIn(Names)

\* the head of a loop iteration: self.limiter.wait()
GetPriceWait ==
    /\ pc = "gp_wait"
    /\ \E jitter_amount \in JitterAmounts :
          /\ elapsed' = 0
          /\ Pass(WaitSleep(jitter_amount))
          /\ hist' = HWait(hist, jitter_amount)
    /\ pc' = "gp_request"
    /\ UNCHANGED <<consecutive_429, gpVars, invVars, ret>>

\* a loop of max_retries + 2 attempts
GetPriceNext_OneMore(h, last) ==
    IF attempt = max_retries + 1
    THEN /\ pc' = "idle"
         /\ ret' = last
         /\ hist' = [h EXCEPT !.outcome = "exhausted"]
         /\ attempt' = attempt
    ELSE /\ pc' = "gp_wait"
         /\ ret' = ret
         /\ hist' = h
         /\ attempt' = attempt + 1

\* the end of a loop iteration that did not return: the next attempt, or, after
\* the last one, the end of the function.  `last` is what the function returns
\* when the iteration was the last one.
GetPriceNext(h, last) ==
    IF attempt = max_retries
    THEN /\ pc' = "idle"
         /\ ret' = last
         /\ hist' = [h EXCEPT !.outcome = "exhausted"]
         /\ attempt' = attempt
    ELSE /\ pc' = "gp_wait"
         /\ ret' = ret
         /\ hist' = h
         /\ attempt' = attempt + 1

\* the request is answered 429: handle_429() and `continue`; after the last
\* attempt the loop ends and the function returns nothing
GetPrice429In(latencies) ==
    /\ pc = "gp_request"
    /\ consecutive_429 < MaxCounter
    /\ \E latency \in latencies :
          LET counter == consecutive_429 + 1
              delay == Handle429Delay(counter)
          IN  /\ elapsed' = Later(elapsed, latency + delay)
              /\ Pass(latency + delay)
              /\ consecutive_429' = counter
              /\ GetPriceNext(HPenalty(HAnswer(HRequest(hist), "429"), delay), Return(None))
    /\ UNCHANGED <<name, max_retries, invVars>>

\* the same with all that the server and the file system can do
GetPrice429 == GetPrice429In(Latencies)

\* a failed request whose call, when it was the last attempt, caches the zero
\* record it returns
GetPriceError_CachesFallback ==
    /\ pc = "gp_request"
    /\ \E latency \in Latencies :
          /\ elapsed' = Later(elapsed, latency)
          /\ cache' = IF attempt = max_retries
                      THEN CacheSet(Aged(cache, latency), name, ZeroRecord)
                      ELSE Aged(cache, latency)
          /\ disk' = IF attempt = max_retries
                     THEN SaveCache(cache', AgedFile(disk, latency), "ok")
                     ELSE AgedFile(disk, latency)
    /\ GetPriceNext(HNot429(HAnswer(HRequest(hist), "failed")), Return(ZeroRecord))
    /\ UNCHANGED <<consecutive_429, name, max_retries, invVars>>

\* the request raises before success(): a transport error, or an HTTP error
\* status other than 429 in raise_for_status()
GetPriceErrorIn(latencies) ==
    /\ pc = "gp_request"
    /\ \E latency \in latencies :
          /\ elapsed' = Later(elapsed, latency)
          /\ Pass(latency)
    /\ GetPriceNext(HNot429(HAnswer(HRequest(hist), "failed")), Return(ZeroRecord))
    /\ UNCHANGED <<consecutive_429, name, max_retries, invVars>>

\* the same with all that the server and the file system can do
GetPriceError == GetPriceErrorIn(Latencies)

\* the request is answered 200 with a body that resp.json() or the parsing
\* rejects: success(), then the exception
GetPriceMalformedIn(latencies) ==
    /\ pc = "gp_request"
    /\ \E latency \in latencies :
          /\ elapsed' = Later(elapsed, latency)
          /\ Pass(latency)
    /\ consecutive_429' = 0
    /\ GetPriceNext(HNot429(HSuccess(HAnswer(HRequest(hist), "2xx"))), Return(ZeroRecord))
    /\ UNCHANGED <<name, max_retries, invVars>>

\* the same with all that the server and the file system can do
GetPriceMalformed == GetPriceMalformedIn(Latencies)

\* the request is answered 200 with a listing payload: success(), parse,
\* cache.set(), return
GetPriceOkIn(latencies, payloads, outcomes) ==
    /\ pc = "gp_request"
    /\ \E latency \in latencies, listinginfo \in payloads, io \in outcomes :
          LET result == ParsePrice(listinginfo)
          IN  /\ elapsed' = Later(elapsed, latency)
              /\ cache' = CacheSet(Aged(cache, latency), name, result)
              /\ disk' = SaveCache(cache', AgedFile(disk, latency), io)
              /\ ret' = Return(result)
              /\ hist' = [HSuccess(HAnswer(HRequest(hist), "2xx"))
                             EXCEPT !.outcome = "ok", !.payload = listinginfo]
    /\ consecutive_429' = 0
    /\ pc' = "idle"
    /\ UNCHANGED <<name, max_retries, attempt, invVars>>

\* the same with all that the server and the file system can do
GetPriceOk == GetPriceOkIn(Latencies, PricePayloads, IoOutcomes)

NextPrice ==
    \/ Elapse
    \/ GetPriceCall
    \/ GetPriceWait
    \/ GetPrice429
    \/ GetPriceError
    \/ GetPriceMalformed
    \/ GetPriceOk

SpecPrice == Init /\ [][NextPrice]_vars

---------------------------------------------------------------------------
(* SteamMarketAPI.fetch_csgo_inventory *)

\* a call that starts by resetting the limiter's counter
FetchCall_ResetsCounter ==
    /\ pc = "idle"
    /\ all_assets' = << >>
    /\ descriptions' = << >>
    /\ last_assetid' = NoId
    /\ first' = TRUE
    /\ data' = Unbound
    /\ start_assetid' = NoId
    /\ retry_count' = 0
    /\ pc' = "inv_page"
    /\ ret' = NoRet
    /\ hist' = HCall(hist, "fetch_csgo_inventory")
    /\ consecutive_429' = 0
    /\ UNCHANGED <<elapsed, cacheVars, gpVars>>

\* the call, up to the `while more_items` loop
FetchCall ==
    /\ pc = "idle"
    /\ all_assets' = << >>
    /\ descriptions' = << >>
    /\ last_assetid' = NoId
    /\ first' = TRUE
    /\ data' = Unbound
    /\ start_assetid' = NoId
    /\ retry_count' = 0
    /\ pc' = "inv_page"
    /\ ret' = NoRet
    /\ hist' = HCall(hist, "fetch_csgo_inventory")
    /\ UNCHANGED <<limiterVars, cacheVars, gpVars>>

\* `if not last_assetid`: None and the empty string
NoCursor(id) == id = NoId \/ id = ""

\* the head of the page loop: the cursor, self.limiter.wait(), retry_count = 0
InvPage ==
    /\ pc = "inv_page"
    /\ start_assetid' = IF NoCursor(last_assetid) THEN start_assetid ELSE last_assetid
    /\ \E jitter_amount \in JitterAmounts :
          /\ elapsed' = 0
          /\ Pass(WaitSleep(jitter_amount))
          /\ hist' = [HWait(hist, jitter_amount) EXCEPT !.page_failures = 0,
                                                        !.page_requests = 0]
    /\ retry_count' = 0
    /\ pc' = "inv_request"
    /\ UNCHANGED <<consecutive_429, gpVars, all_assets, descriptions, last_assetid,
                   first, data, ret>>

\* the call returns {'assets': all_assets, 'descriptions': descriptions}
InvReturn(assets, descs, h, outcome) ==
    /\ pc' = "idle"
    /\ ret' = Return([assets |-> assets, descriptions |-> descs])
    /\ hist' = [h EXCEPT !.outcome = outcome]

\* the page loop that goes on while more_items, whatever the cursor
AfterRetryLoop_IgnoresCursor(d, h) ==
    IF d = Unbound
    THEN /\ pc' = "idle"
         /\ ret' = Raise("UnboundLocalError")
         /\ hist' = [h EXCEPT !.outcome = "raised"]
         /\ UNCHANGED <<all_assets, descriptions, last_assetid, first>>
    ELSE IF Falsy(d)
    THEN /\ InvReturn(all_assets, descriptions, h, "returned")
         /\ UNCHANGED <<all_assets, descriptions, last_assetid, first>>
    ELSE LET descs == IF first THEN Get(d, "descriptions", << >>) ELSE descriptions
             assets == all_assets \o Get(d, "assets", << >>)
         IN  /\ descriptions' = descs
             /\ first' = FALSE
             /\ all_assets' = assets
             /\ last_assetid' = Get(d, "last_assetid", NoId)
             /\ IF Get(d, "more_items", 0) # 1
                THEN InvReturn(assets, descs, h, "returned")
                ELSE /\ pc' = "inv_page"
                     /\ ret' = ret
                     /\ hist' = h

\* the code after the retry loop, with `d` in data: an unassigned data raises,
\* a falsy one ends the loop, a page is added and the loop goes on or ends
AfterRetryLoop(d, h) ==
    IF d = Unbound
    THEN /\ pc' = "idle"
         /\ ret' = Raise("UnboundLocalError")
         /\ hist' = [h EXCEPT !.outcome = "raised"]
         /\ UNCHANGED <<all_assets, descriptions, last_assetid, first>>
    ELSE IF Falsy(d)
    THEN /\ InvReturn(all_assets, descriptions, h, "returned")
         /\ UNCHANGED <<all_assets, descriptions, last_assetid, first>>
    ELSE LET descs == IF first THEN Get(d, "descriptions", << >>) ELSE descriptions
             current_assets == Get(d, "assets", << >>)
             assets == all_assets \o current_assets
             more_items == Get(d, "more_items", 0) = 1
             cursor == Get(d, "last_assetid", NoId)
         IN  /\ descriptions' = descs
             /\ first' = FALSE
             /\ all_assets' = assets
             /\ last_assetid' = cursor
             /\ IF ~more_items \/ NoCursor(cursor)
                THEN InvReturn(assets, descs, h, "returned")
                ELSE /\ pc' = "inv_page"
                     /\ ret' = ret
                     /\ hist' = h

\* the history after the body `d` of a 200 answer was taken
HServed(h, d) ==
    IF d \in Pages
    THEN [h EXCEPT !.expected = h.expected \o Get(d, "assets", << >>),
                   !.closed = IF Get(d, "more_items", 0) = 1
                                 /\ ~NoCursor(Get(d, "last_assetid", NoId))
                              THEN "no" ELSE "page"]
    ELSE [h EXCEPT !.closed = "other"]

\* the request is answered 429: handle_429(), retry_count += 1, `continue`;
\* at max_retries the retry loop ends
Inv429In(latencies) ==
    /\ pc = "inv_request"
    /\ hist.requests < MaxRequests
    /\ consecutive_429 < MaxCounter
    /\ \E latency \in latencies :
          LET counter == consecutive_429 + 1
              delay == Handle429Delay(counter)
              h == HPenalty(HAnswer(HRequest(hist), "429"), delay)
          IN  /\ elapsed' = Later(elapsed, latency + delay)
              /\ Pass(latency + delay)
              /\ consecutive_429' = counter
              /\ retry_count' = retry_count + 1
              /\ IF retry_count + 1 < inv_max_retries
                 THEN /\ pc' = "inv_request"
                      /\ hist' = h
                      /\ UNCHANGED <<all_assets, descriptions, last_assetid, first, ret>>
                 ELSE AfterRetryLoop(data, [h EXCEPT !.exhausted = TRUE])
    /\ UNCHANGED <<gpVars, data, start_assetid>>

\* the same with all that the server and the file system can do
Inv429 == Inv429In(Latencies)

\* the handler of a failed attempt: retry_count += 1, then return what was
\* gathered, or sleep min(2 ** retry_count, 60) s and try again
InvFailed(h, latency) ==
    /\ retry_count' = retry_count + 1
    /\ IF retry_count + 1 >= inv_max_retries
       THEN /\ elapsed' = Later(elapsed, latency)
            /\ Pass(latency)
            /\ InvReturn(all_assets, descriptions,
                         [HFailure(h) EXCEPT !.exhausted = TRUE], "returned")
       ELSE /\ elapsed' = Later(elapsed, latency + RetryDelay(retry_count + 1))
            /\ Pass(latency + RetryDelay(retry_count + 1))
            /\ pc' = "inv_request"
            /\ ret' = ret
            /\ hist' = HFailure(h)
    /\ UNCHANGED <<gpVars, all_assets, descriptions, last_assetid, first, data,
                   start_assetid>>

\* the request raises before success(): a transport error, or an HTTP error
\* status other than 429 in raise_for_status()
InvErrorIn(latencies) ==
    /\ pc = "inv_request"
    /\ hist.requests < MaxRequests
    /\ \E latency \in latencies : InvFailed(HNot429(HAnswer(HRequest(hist), "failed")), latency)
    /\ UNCHANGED consecutive_429

\* the same with all that the server and the file system can do
InvError == InvErrorIn(Latencies)

\* the request is answered 200 with a body that is not JSON: success(), then
\* resp.json() raises
InvMalformedIn(latencies) ==
    /\ pc = "inv_request"
    /\ hist.requests < MaxRequests
    /\ \E latency \in latencies :
          InvFailed(HNot429(HSuccess(HAnswer(HRequest(hist), "2xx"))), latency)
    /\ consecutive_429' = 0

\* the same with all that the server and the file system can do
InvMalformed == InvMalformedIn(Latencies)

\* the request is answered 200 with a JSON body: success(), data = resp.json(),
\* `break`
InvOkIn(latencies, bodies) ==
    /\ pc = "inv_request"
    /\ hist.requests < MaxRequests
    /\ \E latency \in latencies, body \in bodies :
          /\ elapsed' = Later(elapsed, latency)
          /\ Pass(latency)
          /\ data' = body
          /\ AfterRetryLoop(body, HServed(HNot429(HSuccess(HAnswer(HRequest(hist), "2xx"))), body))
    /\ consecutive_429' = 0
    /\ UNCHANGED <<gpVars, retry_count, start_assetid>>

\* the same with all that the server and the file system can do
InvOk == InvOkIn(Latencies, Bodies)

NextInv ==
    \/ FetchCall
    \/ InvPage
    \/ Inv429
    \/ InvError
    \/ InvMalformed
    \/ InvOk

SpecInv == Init /\ [][NextInv]_vars

---------------------------------------------------------------------------
(* PriceCache on its own: construction, set, get *)

\* save_cache(): every way the write can go
SaveOutcomes == IoOutcomes \cup {"open_failed"}

\* a file whose bytes are no text in the encoding open(.., 'r') decodes with
Undecodable == [state |-> "undecodable"]

\* what the cache file can hold when a process starts
CacheFiles == InitialFiles \cup {Undecodable}

\* _load_cache(): json.load raises UnicodeDecodeError, which is neither a
\* JSONDecodeError nor an IOError, so the handler lets it through
LoadRaises(file) == file.state = "undecodable"

\* the records set() is given
SetRecords == {ZeroRecord, ParsePrice(<<Listing1>>)}

\* PriceCache(...): the state after the constructor, for the file found
Constructed(file, store, at, result, h) ==
    IF LoadRaises(file)
    THEN /\ store = << >>
         /\ at = "crashed"
         /\ result = Raise("UnicodeDecodeError")
         /\ h = [InitHist EXCEPT !.op = "PriceCache", !.outcome = "raised"]
    ELSE /\ store = LoadCache(file)
         /\ at = "idle"
         /\ result = NoRet
         /\ h = [InitHist EXCEPT !.op = "PriceCache", !.outcome = "loaded"]

InitCache ==
    /\ elapsed = ElapsedCap
    /\ consecutive_429 = 0
    /\ disk \in CacheFiles
    /\ Constructed(disk, cache, pc, ret, hist)
    /\ name = NoId
    /\ max_retries = 0
    /\ attempt = 0
    /\ retry_count = 0
    /\ all_assets = << >>
    /\ descriptions = << >>
    /\ last_assetid = NoId
    /\ first = TRUE
    /\ data = Unbound
    /\ start_assetid = NoId

\* the process ends and another one constructs its PriceCache from the file
CacheRestart ==
    /\ pc = "idle"
    /\ Constructed(disk, cache', pc', ret', hist')
    /\ UNCHANGED <<disk, limiterVars, gpVars, invVars>>

\* set(item_name, data): the entry, then save_cache()
CacheSetCall ==
    /\ pc = "idle"
    /\ \E item_name \in Names, rec \in SetRecords, io \in SaveOutcomes :
          /\ cache' = CacheSet(cache, item_name, rec)
          /\ disk' = SaveCache(cache', disk, io)
          /\ name' = item_name
          /\ hist' = [hist EXCEPT !.op = "set", !.outcome = "returned",
                                  !.set_key = item_name, !.set_data = rec,
                                  !.set_io = io, !.set_kept = (disk' = disk)]
    /\ ret' = Return(None)
    /\ UNCHANGED <<pc, limiterVars, max_retries, attempt, invVars>>

\* get(item_name)
CacheGetCall ==
    /\ pc = "idle"
    /\ \E item_name \in Names :
          /\ name' = item_name
          /\ ret' = Return(CacheGet(cache, item_name))
    /\ hist' = [hist EXCEPT !.op = "get", !.outcome = "returned"]
    /\ UNCHANGED <<pc, limiterVars, cacheVars, max_retries, attempt, invVars>>

\* a tick passes between two calls
CacheTick ==
    /\ pc = "idle"
    /\ Pass(1)
    /\ ret' = NoRet
    /\ hist' = [hist EXCEPT !.op = "none", !.outcome = "none"]
    /\ UNCHANGED <<pc, limiterVars, gpVars, invVars>>

NextCache ==
    \/ CacheRestart
    \/ CacheSetCall
    \/ CacheGetCall
    \/ CacheTick

SpecCache == InitCache /\ [][NextCache]_vars

---------------------------------------------------------------------------
(* The client as main() uses it: one SteamMarketAPI, whose RateLimiter and  *)
(* PriceCache serve fetch_csgo_inventory and get_price calls alike.  The    *)
(* server is a smaller one: one item name, two inventory pages, a listing   *)
(* or none, a file system that works, no cache file at the start.           *)

ClientNames == {"AK"}
ClientLatencies == {0, ElapsedCap}
ClientPayloads == {<< >>, <<Listing1>>}
ClientBodies == {PageA, PageB}

InitClient == Init /\ disk.state = "missing"

NextClient ==
    \/ Elapse
    \/ GetPriceCallIn(ClientNames)
    \/ GetPriceWait
    \/ GetPrice429In(ClientLatencies)
    \/ GetPriceErrorIn(ClientLatencies)
    \/ GetPriceMalformedIn(ClientLatencies)
    \/ GetPriceOkIn(ClientLatencies, ClientPayloads, {"ok"})
    \/ FetchCall
    \/ InvPage
    \/ Inv429In(ClientLatencies)
    \/ InvErrorIn(ClientLatencies)
    \/ InvMalformedIn(ClientLatencies)
    \/ InvOkIn(ClientLatencies, ClientBodies)

SpecClient == InitClient /\ [][NextClient]_vars

---------------------------------------------------------------------------
(* Properties *)

\* the bounds of the jittered delay: base_delay * (1 - jitter), base_delay * (1 + jitter)
JitterLow == base_delay - jitter_span
JitterHigh == base_delay + jitter_span

\* a wait() has just returned
AfterWait == pc \in {"gp_request", "inv_request"} /\ hist.since_wait = 0

\* a get_price call has just ended
GetPriceEnded ==
    /\ pc = "idle"
    /\ hist.op = "get_price"
    /\ hist.outcome \in {"hit", "ok", "exhausted"}

\* C1: get_price always returns a price record, and the zero record when the
\* retry budget is used up, whatever used it up; never None.
C1_ReturnsRecord ==
    GetPriceEnded =>
        /\ ret.kind = "return"
        /\ ret.val \in PriceRecords
        /\ (hist.outcome = "exhausted" => ret.val = ZeroRecord)

\* C2: once a page of fetch_csgo_inventory has used up its retries, the call
\* has returned the assets of the pages served before, each once and in order,
\* and sends no other request.  (The call that raises instead is C3's.)
C2_ExhaustionEndsPagination ==
    (hist.op = "fetch_csgo_inventory" /\ hist.exhausted /\ ret.kind # "raise") =>
        /\ pc = "idle"
        /\ ret.kind = "return"
        /\ ret.val.assets = hist.expected
        /\ all_assets = hist.expected
        /\ hist.late_requests = 0

\* C3: no call ends with an unhandled exception.
C3_NoUnhandledException == ret.kind # "raise"

\* now - timestamp of a stored timestamp; for the timestamp 0 it is the clock
\* itself, beyond any cache lifetime
StoredAge(ts) == IF ts.kind = "zero" THEN AgeCap ELSE ts.age

\* C4: an entry that holds a timestamp is returned by get() iff
\* now - timestamp <= ttl, and is absent otherwise, for every timestamp the
\* store can hold.
C4_TTL ==
    \A k \in DOMAIN cache :
        cache[k].ts.kind # "missing" =>
            /\ StoredAge(cache[k].ts) <= cache_duration
                  => CacheGet(cache, k) = cache[k].data
            /\ StoredAge(cache[k].ts) > cache_duration
                  => CacheGet(cache, k) = None

\* the store holds an entry for n that get() takes as valid
ValidEntry(store, n) ==
    /\ n \in DOMAIN store
    /\ ~(store[n].ts.kind = "at" /\ store[n].ts.age > cache_duration)

\* C5: a get_price call made while the cache holds a valid entry for the name
\* returns that entry's record at once: no request, no call of the pacer, the
\* cache and the file untouched.
C5_CacheHitShortCircuit ==
    [][(/\ pc = "idle"
        /\ hist'.op = "get_price"
        /\ hist'.outcome # "none"
        /\ ValidEntry(cache, name'))
       => (/\ pc' = "idle"
           /\ ret' = Return(cache[name'].data)
           /\ hist'.outcome = "hit"
           /\ hist'.requests = 0
           /\ hist'.waits = hist.waits
           /\ hist'.penalties = hist.penalties
           /\ UNCHANGED <<elapsed, consecutive_429, cache, disk>>)]_vars

\* C5 witness: a hit that returned a cached zero record
C5_Witness ==
    /\ GetPriceEnded
    /\ hist.outcome = "hit"
    /\ ret = Return(ZeroRecord)
    /\ hist.waits = 2

\* C6: while no page has used up its retries, all_assets is the concatenation,
\* in order, of the assets of the pages served; after a page that reports no
\* more items or no cursor the call has returned exactly that and has sent no
\* other request.
C6_PaginationTermination ==
    (hist.op = "fetch_csgo_inventory" /\ ~hist.exhausted) =>
        /\ all_assets = hist.expected
        /\ hist.late_requests = 0
        /\ hist.closed = "page" =>
              /\ pc = "idle"
              /\ ret = Return([assets |-> hist.expected, descriptions |-> descriptions])

\* C6 witness: a call that returned three pages' assets, with retries on the way
C6_Witness ==
    /\ hist.op = "fetch_csgo_inventory"
    /\ ~hist.exhausted
    /\ hist.closed = "page"
    /\ pc = "idle"
    /\ ret.val.assets = <<"a1", "a2", "e1", "b1">>
    /\ hist.requests > 3

\* C7, as claimed: but for the first wait(), the gap between the request times
\* of two consecutive wait()s is within base_delay * (1 -+ jitter).
C7_GapWithinBand ==
    (AfterWait /\ hist.waits = 2) =>
        (JitterLow <= hist.gap /\ hist.gap <= JitterHigh)

\* C7, amended: but for the first wait(), the gap between the request times of
\* two consecutive wait()s is at least base_delay * (1 - jitter).
C7_GapAtLeastLow ==
    (AfterWait /\ hist.waits = 2) => JitterLow <= hist.gap

\* C7 witness: a second or later wait() whose gap is above the band
C7_Witness == AfterWait /\ hist.waits = 2 /\ hist.gap > JitterHigh

\* C8: when wait() returns, last_request_time is the current time and the time
\* since the previous last_request_time is at least the jittered delay drawn,
\* hence at least base_delay * (1 - jitter).
C8_MinimumSpacing ==
    AfterWait =>
        /\ elapsed = 0
        /\ hist.spaced
        /\ JitterLow <= hist.gap

\* C8 witness: a wait() that slept up to the largest jittered delay
C8_Witness == AfterWait /\ hist.waits = 2 /\ hist.gap = JitterHigh

\* C9: the delays of the handle_429() calls since the last success() are
\* min(base_delay * 2^i, max_delay) for i = 1, 2, .., never decreasing and never
\* above max_delay; there are consecutive_429 of them, none after a success().
C9_BackoffMonotone ==
    /\ Len(hist.penalties) = consecutive_429
    /\ \A i \in 1 .. Len(hist.penalties) :
          /\ hist.penalties[i] = Min(base_delay * Pow2(i), max_delay)
          /\ hist.penalties[i] <= max_delay
          /\ i > 1 => hist.penalties[i - 1] <= hist.penalties[i]

\* C9 witness: the cap is reached and held
C9_Witness ==
    /\ Len(hist.penalties) >= 7
    /\ hist.penalties[5] < max_delay
    /\ hist.penalties[6] = max_delay
    /\ hist.penalties[7] = max_delay

\* a get_price call answered by 429s and then a 200 with a payload has returned
AfterRateLimitedSuccess ==
    /\ pc = "idle"
    /\ hist.op = "get_price"
    /\ hist.outcome = "ok"
    /\ hist.only_429

\* C10, as claimed: k 429s and then a 200 give exactly k penalties
\* base*2, base*4, .. (capped), the parsed record is returned and cached;
\* whatever calls came before.
C10_PenaltiesFromBase ==
    AfterRateLimitedSuccess =>
        /\ Len(hist.call_penalties) = hist.requests - 1
        /\ \A i \in 1 .. Len(hist.call_penalties) :
              hist.call_penalties[i] = Min(base_delay * Pow2(i), max_delay)
        /\ ret.kind = "return"
        /\ ret.val \in PriceRecords
        /\ name \in DOMAIN cache
        /\ cache[name].data = ret.val

\* C10, amended: the k penalties go on from the counter the call started with:
\* min(base * 2^(c + i), max_delay) for i = 1 .. k, c being consecutive_429 at
\* the start of the call (base*2, base*4, .. when c = 0).
C10_PenaltiesFromCounter ==
    AfterRateLimitedSuccess =>
        /\ Len(hist.call_penalties) = hist.requests - 1
        /\ \A i \in 1 .. Len(hist.call_penalties) :
              hist.call_penalties[i] =
                  Min(base_delay * Pow2(hist.call_start_429 + i), max_delay)
        /\ ret.kind = "return"
        /\ ret.val \in PriceRecords
        /\ name \in DOMAIN cache
        /\ cache[name].data = ret.val
        /\ cache[name].ts = At(0)

\* C10 witness: two 429s and then a 200, in a call that started with a counter
\* left by an earlier call
C10_Witness ==
    /\ AfterRateLimitedSuccess
    /\ Len(hist.call_penalties) = 2
    /\ hist.call_start_429 > 0
    /\ ret.val = ParsePrice(<<Listing1>>)

\* C11: after a set() whose save succeeded, and until the next set(), the file
\* holds the whole in-memory store, every key of it, and the entry of the key
\* set holds the record with the time of the set.
C11_WriteThrough ==
    (pc = "idle" /\ hist.set_io = "ok") =>
        /\ disk.state = "stored"
        /\ disk.store = cache
        /\ hist.set_key \in DOMAIN cache
        /\ cache[hist.set_key].data = hist.set_data
        /\ (hist.op = "set" =>
               /\ cache[hist.set_key].ts = At(0)
               /\ CacheGet(cache, hist.set_key) = hist.set_data)

\* C11 witness: a successful set() into a store that holds another key, after
\* an earlier save had failed
C11_Witness ==
    /\ hist.op = "set"
    /\ hist.set_io = "ok"
    /\ hist.set_key = "AWP"
    /\ "AK" \in DOMAIN cache
    /\ cache["AK"].ts.kind = "at"
    /\ cache["AK"].ts.age > 0

\* after a set() whose save failed, and until the next set(): the entry is in
\* memory, the file lacks it, get() returns the record while it is unexpired;
\* and a process started on a missing or malformed file has an empty store
SaveFailureKeepsMemory ==
    /\ (hist.op = "PriceCache" /\ disk.state \in {"missing", "malformed"}) =>
          (pc = "idle" /\ cache = << >>)
    /\ (pc = "idle" /\ hist.set_io \in {"open_failed", "write_failed"}) =>
          /\ hist.set_key \in DOMAIN cache
          /\ cache[hist.set_key].data = hist.set_data
          /\ hist.set_kept \/ disk.state = "malformed"
          /\ (hist.op = "set" =>
                 /\ ret = Return(None)
                 /\ cache[hist.set_key].ts = At(0))
          /\ (hist.op = "get" /\ name = hist.set_key
                 /\ cache[name].ts.age <= cache_duration) =>
                 ret = Return(hist.set_data)

\* C12: a failed save does not fail set() and leaves the entry in memory, and
\* no file found at load fails the constructor: a missing or malformed file
\* gives an empty store.
C12_PersistenceFailureNonFatal ==
    /\ ret.kind # "raise"
    /\ (hist.op = "PriceCache" /\ disk.state # "stored") =>
          (pc = "idle" /\ cache = << >>)
    /\ SaveFailureKeepsMemory

\* a set() failed to save and a later get() of the key returned its record
SaveFailureSeen ==
    /\ hist.op = "get"
    /\ hist.set_io = "open_failed"
    /\ name = hist.set_key
    /\ cache[name].ts.age = cache_duration
    /\ ret = Return(hist.set_data)

\* C13: a get_price call that returns on a 200 answer returns, for a
\* listinginfo whose first entry carries converted_price, the price
\* converted_price + converted_fee of that entry (in cents; a missing fee
\* counts 0) with that entry's quantity; for an empty or missing listinginfo,
\* the zero record.
C13_PriceArithmetic ==
    (GetPriceEnded /\ hist.outcome = "ok") =>
        LET listinginfo == hist.payload
        IN  /\ ret.kind = "return"
            /\ listinginfo = << >> => ret.val = ZeroRecord
            /\ (listinginfo # << >> /\ "converted_price" \in DOMAIN listinginfo[1]) =>
                  /\ ret.val.price = listinginfo[1].converted_price
                                     + Get(listinginfo[1], "converted_fee", 0)
                  /\ ret.val.quantity = Get(listinginfo[1], "quantity", 0)

\* C13 witness: 1050 + 50 cents give 11.00, on a retried request
C13_Witness ==
    /\ GetPriceEnded
    /\ hist.outcome = "ok"
    /\ hist.payload = <<Listing1>>
    /\ ret.val = [price |-> 1100, quantity |-> 3]
    /\ hist.requests > 1

\* a get_price call has just returned on a 200 answer
ReturnedOnSuccess == GetPriceEnded /\ hist.outcome = "ok"

\* C14: when get_price(name) returns on a 200 answer, the cache holds for name
\* the returned record with the time of the write, get(name) gives it, and a
\* get_price(name) called right then is a hit that returns the same record.
C14_WriteBackBeforeReturn ==
    /\ [](ReturnedOnSuccess =>
            /\ ret.kind = "return"
            /\ name \in DOMAIN cache
            /\ cache[name] = [data |-> ret.val, ts |-> At(0)]
            /\ CacheGet(cache, name) = ret.val)
    /\ [][(ReturnedOnSuccess /\ hist'.op = "get_price" /\ name' = name)
          => (pc' = "idle" /\ hist'.outcome = "hit" /\ ret' = ret)]_vars

\* C14 witness: the hit of a call made right after a call that returned the
\* zero record on a 200 answer with no listing
C14_Witness ==
    /\ GetPriceEnded
    /\ hist.outcome = "hit"
    /\ ret = Return(ZeroRecord)
    /\ name \in DOMAIN cache
    /\ cache[name].ts = At(0)

\* C15: a page of fetch_csgo_inventory is given up only after inv_max_retries
\* failed attempts (transport errors, malformed answers), however many 429
\* answers it got: a 429 takes none of the failures' retries.
C15_RateLimitKeepsRetrySlots ==
    (hist.op = "fetch_csgo_inventory" /\ hist.exhausted) =>
        hist.page_failures = inv_max_retries

\* a page given up in the except handler, after one 429 answer and four failures
GivenUpEarly ==
    /\ hist.op = "fetch_csgo_inventory"
    /\ hist.exhausted
    /\ pc = "idle"
    /\ ret.kind = "return"
    /\ hist.page_failures = inv_max_retries - 1
    /\ hist.requests = inv_max_retries

\* C16: no two requests are sent with no wait() between them, in either
\* operation and on retries too, and after a 2xx answer success() has been
\* called (the counter is 0) before anything else is sent.
C16_WaitBeforeEveryRequest ==
    /\ hist.since_wait <= 1
    /\ hist.last_answer = "2xx" => consecutive_429 = 0

\* a retry of get_price, after a 429 answer, that was sent after its own wait()
PacedRetry ==
    /\ hist.op = "get_price"
    /\ pc = "gp_wait"
    /\ hist.requests = 2
    /\ hist.last_answer = "429"
    /\ hist.since_wait = 1

\* the request of the running call that was sent and is not answered yet
InFlight == IF pc \in {"gp_request", "inv_request"} THEN 1 ELSE 0

\* no request of the running fetch_csgo_inventory call was answered with a body
NothingServed == hist.expected = << >> /\ hist.closed = "no"

\* C17: a get_price call sends at most max_retries + 1 requests and is over
\* once the last of them is answered; a page of fetch_csgo_inventory gets at
\* most inv_max_retries requests; a fetch_csgo_inventory call that got 429
\* answers and failures only sends at most inv_max_retries requests and is over
\* once the last of them is answered.
C17_BoundedRetries ==
    /\ hist.op = "get_price" =>
          /\ hist.requests + InFlight <= max_retries + 1
          /\ hist.requests = max_retries + 1 => pc = "idle"
    /\ hist.op = "fetch_csgo_inventory" =>
          /\ hist.page_requests + InFlight <= inv_max_retries
          /\ NothingServed =>
                /\ hist.requests + InFlight <= inv_max_retries
                /\ hist.requests = inv_max_retries =>
                      (pc = "idle" /\ ret.kind \in {"return", "raise"})

\* C17 witness: a get_price call that used up max_retries + 1 requests on 429
\* answers, made after a fetch_csgo_inventory call that was given up
C17_Witness ==
    /\ hist.op = "get_price"
    /\ pc = "idle"
    /\ hist.outcome = "exhausted"
    /\ hist.requests = MaxRetriesArg + 1
    /\ hist.only_429
    /\ consecutive_429 > hist.requests
    /\ all_assets = << >>
    /\ retry_count = inv_max_retries

\* C18: no operation ends on a 429 answer: after handle_429() the request is
\* sent again before the operation returns.
C18_RateLimitAlwaysRetried ==
    (pc = "idle" /\ hist.op \in {"get_price", "fetch_csgo_inventory"}) =>
        hist.last_answer # "429"

\* a fetch_csgo_inventory call ended by a 429 answer
FetchEndedOn429 ==
    /\ pc = "idle"
    /\ hist.op = "fetch_csgo_inventory"
    /\ hist.last_answer = "429"

\* the step does nothing to the store and the file but let time pass
OnlyAged ==
    \E d \in 0 .. AgeCap :
        /\ cache' = Aged(cache, d)
        /\ disk' = AgedFile(disk, d)

\* C19: every step but the one that takes a 200 answer with a payload leaves
\* the store and the file as they are (their timestamps only get older); so
\* while a get_price call runs after a miss, and when it ends by exhaustion,
\* get(name) is still a miss and the next get_price(name) enters the loop.
C19_ExhaustionLeavesCache ==
    /\ [][(pc = "gp_request" /\ hist'.outcome = "ok") \/ OnlyAged]_vars
    /\ []((hist.op = "get_price" /\ hist.outcome \in {"running", "exhausted"}) =>
             CacheGet(cache, name) = None)
    /\ [][(GetPriceEnded /\ hist.outcome = "exhausted"
             /\ hist'.op = "get_price" /\ name' = name)
          => (pc' = "gp_wait" /\ hist'.outcome = "running")]_vars

\* C19 witness: a call that ended by exhaustion on failures, with the expired
\* entry of its name and a valid entry of the other name still in the store
C19_Witness ==
    /\ GetPriceEnded
    /\ hist.outcome = "exhausted"
    /\ ret = Return(ZeroRecord)
    /\ name = "AK"
    /\ "AK" \in DOMAIN cache
    /\ "AWP" \in DOMAIN cache
    /\ CacheGet(cache, "AWP") # None
    /\ hist.requests = MaxRetriesArg + 1

\* C20: consecutive_429 is the number of 429 answers since the latest 2xx
\* answer (or since construction), over all calls of both operations; a call
\* answered with 429s pays as its first penalty the delay that follows the
\* counter it started with.
C20_CounterAcrossCalls ==
    /\ consecutive_429 = hist.since_2xx
    /\ (hist.only_429 /\ Len(hist.call_penalties) > 0) =>
          /\ hist.call_penalties[1] =
                Min(base_delay * Pow2(hist.call_start_429 + 1), max_delay)
          /\ hist.last_answer = "429" =>
                consecutive_429 = hist.call_start_429 + Len(hist.call_penalties)

\* C20 witness: a get_price call, made after a fetch_csgo_inventory call that
\* five 429 answers ended, whose first penalty is above base_delay * 2
C20_Witness ==
    /\ hist.op = "get_price"
    /\ hist.only_429
    /\ hist.call_start_429 = inv_max_retries
    /\ Len(hist.call_penalties) = 1
    /\ hist.call_penalties[1] > 2 * base_delay
    /\ consecutive_429 = inv_max_retries + 1
    /\ data = Unbound
    /\ retry_count = inv_max_retries

=============================================================================
